---------------------------- MODULE Spec2Model ----------------------------
(***************************************************************************)
(* The rotating batch-analysis engine of Flask-Margex-Prediction.          *)
(*                                                                         *)
(* The repository holds three stand-alone programs that implement the same *)
(* engine:                                                                 *)
(*   "api_utils"  src/api_utils.py  asyncio scheduler, risk-adjusted       *)
(*                                  logistic scorer, placeholders seeded   *)
(*   "web"        src/web.py        asyncio scheduler, logistic scorer     *)
(*   "test"       src/test.py       thread-pool scheduler, RSI/MACD scorer *)
(* The variable impl says which of them is running.  The variables cache   *)
(* and SYMBOLS stand for cache/SYMBOLS of api_utils.py and web.py and for  *)
(* results_cache/symbols of test.py.                                       *)
(*                                                                         *)
(* Symbols are the numbers 1..NumSymbols.  A Python dict is a sequence of  *)
(* [k, v] records with distinct keys, in insertion order.  Probabilities   *)
(* and margin rates are per-mille integers; a published percentage is an   *)
(* integer number of tenths of a percent (the code prints one decimal).     *)
(***************************************************************************)
EXTENDS Integers, Sequences, FiniteSets, TLC

\* ------------------------------------------------------------------ bounds
NumSymbols == 2
MaxGroupSize == 2
MaxWorkers == 2

\* ------------------------------------------------------ program constants
MinBars == 25
DefaultGroupSize == 30
LongPermille == 850
ShortPermille == 150

Symbols == 1..NumSymbols

\* ----------------------------------------------------------------- helpers
Range(s) == {s[n] : n \in DOMAIN s}

IsInjective(s) == \A a, b \in DOMAIN s : s[a] = s[b] => a = b

\* The n-th item on, at most k items: the Python slice s[n:n+k] with n 0-based.
Slice(s, n, k) == SubSeq(s, n + 1, IF n + k < Len(s) THEN n + k ELSE Len(s))

\* a range that takes its stop value too
RECURSIVE PyRangeInclusive(_, _, _)
PyRangeInclusive(start, stop, step) ==
    IF start > stop THEN <<>>
    ELSE <<start>> \o PyRangeInclusive(start + step, stop, step)

\* Python's range(start, stop, step) for step > 0, as a sequence
RECURSIVE PyRange(_, _, _)
PyRange(start, stop, step) ==
    IF start >= stop THEN <<>>
    ELSE <<start>> \o PyRange(start + step, stop, step)

\* a / b rounded to the nearest integer, halves up (a >= 0, b > 0).
RoundDiv(a, b) == (2 * a + b) \div (2 * b)

\* ------------------------------------------------------------ Python dict
DictKeys(d) == {d[n].k : n \in DOMAIN d}

DictHas(d, key) == key \in DictKeys(d)

DictGet(d, key, default) ==
    IF DictHas(d, key)
    THEN (CHOOSE e \in Range(d) : e.k = key).v
    ELSE default

\* a store that replaces the whole dict by the one item: d = {key: val}
DictReplace(d, key, val) == <<[k |-> key, v |-> val]>>

\* d[key] = val: an existing key keeps its place, a new key goes last.
DictSet(d, key, val) ==
    IF DictHas(d, key)
    THEN [n \in DOMAIN d |-> IF d[n].k = key THEN [k |-> key, v |-> val] ELSE d[n]]
    ELSE Append(d, [k |-> key, v |-> val])

\* a seeding that stores the value whether the key is there or not: d[key] = val
DictOverwrite(d, key, val) == DictSet(d, key, val)

\* d.setdefault(key, val)
DictSetDefault(d, key, val) == IF DictHas(d, key) THEN d ELSE DictSet(d, key, val)

\* ----------------------------------------------------------------- signals
Sig(tag, pct) == [tag |-> tag, pct |-> pct]

Pending == Sig("Pending", -1)
NoResponse == Sig("NoResponse", -1)
RequestFailed == Sig("RequestFailed", -1)
InsufficientData == Sig("InsufficientData", -1)
AnalysisFailed == Sig("AnalysisFailed", -1)
\* not a signal: the coroutine ended with an exception
Raised == Sig("Raised", -1)


\* ------------------------------------------------- the provider's answers
(***************************************************************************)
(* What one k-line request brings back, and what the numerical libraries   *)
(* (ta, sklearn, pandas) compute from it.  The indicator and model-fitting *)
(* arithmetic is floating point over the bars and is not reproduced: its   *)
(* results are inputs.                                                     *)
(*   net        "ok", or the request raised ("timeout", "error")           *)
(*   body       the decoded JSON: "invalid" (resp.json() raises), "list"   *)
(*              (not an object), "nokey" (object without 'data'), "null"   *)
(*              ('data' is null), "rows" ('data' is a list of rows bars)   *)
(*   rows       number of bars in 'data'                                   *)
(*   wellformed every bar has six numeric fields                           *)
(*   fit        "ok", or the indicator/model computation raised            *)
(*   prob       predict_proba(latest)[0][1], per mille                     *)
(*   rsi, rsiNaN, macdPos   compute_rsi(close).iloc[-1] in tenths, whether *)
(*              it is NaN, and whether compute_macd_diff(close).iloc[-1]   *)
(*              is > 0 (test.py)                                           *)
(***************************************************************************)
Resp(net, body, rows, wellformed, fit, prob, rsi, rsiNaN, macdPos) ==
    [net |-> net, body |-> body, rows |-> rows, wellformed |-> wellformed,
     fit |-> fit, prob |-> prob, rsi |-> rsi, rsiNaN |-> rsiNaN,
     macdPos |-> macdPos]

\* contract/detail metadata of one symbol, per mille
Detail(mmr, imr) == [mmr |-> mmr, imr |-> imr]

\* the same mapping with the two bounds taken into the Long and Short ranges
ThresholdInclusive(adjusted, scale) ==
    IF adjusted * 1000 >= LongPermille * scale
    THEN Sig("Long", RoundDiv(adjusted * 1000, scale))
    ELSE IF adjusted * 1000 <= ShortPermille * scale
         THEN Sig("Short", RoundDiv((scale - adjusted) * 1000, scale))
         ELSE Sig("NoRec", RoundDiv(adjusted * 1000, scale))

\* src/api_utils.py:132-137 and src/web.py:103-108: the signal of a probability
\* (adjusted is in millionths when scale = 1000000, in thousandths when 1000).
Threshold(adjusted, scale) ==
    IF adjusted * 1000 > LongPermille * scale
    THEN Sig("Long", RoundDiv(adjusted * 1000, scale))
    ELSE IF adjusted * 1000 < ShortPermille * scale
         THEN Sig("Short", RoundDiv((scale - adjusted) * 1000, scale))
         ELSE Sig("NoRec", RoundDiv(adjusted * 1000, scale))

\* src/api_utils.py:80-137
fetch_kline_api(r, detail) ==
    IF r.net /= "ok" \/ r.body \in {"invalid", "list"}
    THEN RequestFailed                      \* raised inside the try
    ELSE IF r.body \in {"nokey", "null"} \/ r.rows = 0
    THEN NoResponse                         \* if not rows
    ELSE IF ~r.wellformed
    THEN RequestFailed                      \* int()/float() raised inside the try
    ELSE IF r.rows < MinBars
    THEN InsufficientData
    ELSE IF r.fit /= "ok"
    THEN Raised                             \* lines 104-117 are outside any try
    ELSE Threshold(r.prob * (1000 - (detail.mmr + detail.imr)), 1000000)

\* src/web.py:67-110
fetch_kline_web(r) ==
    IF r.net /= "ok" \/ r.body = "invalid"
    THEN RequestFailed
    ELSE IF r.body \in {"list", "nokey"}
    THEN NoResponse                         \* 'data' not in data
    ELSE IF r.body = "null" \/ (r.rows > 0 /\ ~r.wellformed)
    THEN RequestFailed                      \* iterating None, int()/float()
    ELSE IF r.rows < MinBars
    THEN InsufficientData                   \* an empty list included
    ELSE IF r.fit /= "ok"
    THEN AnalysisFailed                     \* bare except
    ELSE Threshold(r.prob, 1000)

\* src/test.py:48-93: get_klines raises on a failed request, on a payload that
\* is not rows of six numbers (an empty one included); every exception gives
\* the default ('롱', 0.0).  A NaN strength is published as pct -2.
analyze_symbol(r) ==
    IF r.net /= "ok" \/ r.body /= "rows" \/ r.rows = 0 \/ ~r.wellformed
       \/ r.fit /= "ok"
    THEN Sig("Long", 0)
    ELSE Sig(IF r.macdPos THEN "Long" ELSE "Short",
             IF r.rsiNaN THEN -2
             ELSE 2 * (IF r.rsi >= 500 THEN r.rsi - 500 ELSE 500 - r.rsi))

\* the per-symbol task of each program
Analyze(im, r, detail) ==
    CASE im = "api_utils" -> fetch_kline_api(r, detail)
      [] im = "web" -> fetch_kline_web(r)
      [] OTHER -> analyze_symbol(r)

\* ------------------------------------------------------------------- state
VARIABLES
    impl,        \* which program runs: "api_utils", "web" or "test"
    group_size,  \* rotating_analysis's group_size
    workers,     \* batch_update's workers
    fIn,         \* one call of the per-symbol task: its program, answer and detail
    fOut,        \* what that call returned
    pc,          \* where the process / the scheduler thread stands
    cause,       \* why the scheduler or the process ended (pc = "dead")
    SYMBOLS,     \* the universe, in provider order
    detail_map,  \* api_utils.py: symbol -> contract detail
    cache,       \* the ResultCache, a dict symbol -> signal
    file,        \* cache.json: [st: "absent" | "ok" | "torn", data: dict]
    i,           \* offset of the current batch in SYMBOLS
    task,        \* symbol -> [st: "none"|"queued"|"running"|"done"|"merged", res]
    results,     \* what gather returned and the merge loop has not yet stored
    published,   \* the payload of the scheduler's last 'update' emit
    served,      \* what the last snapshot read of the serving layer returned
    \* history variables, written and never read by the program's actions
    steps,       \* what the scheduler did since it launched the current batch
    outOfOrder,  \* a task of the batch ended before one launched ahead of it
    merged,      \* symbol -> merges into the cache in the current pass
    covered,     \* the batches launched in the current pass, in order
    npublish,    \* 'update' emits of the scheduler in the current pass
    passDone,    \* the scheduler has finished a pass and not yet begun the next
    loaded       \* symbol -> the signal the main block loaded from cache.json for
                 \* it, Absent if none, Superseded once a result was merged for it

vars == <<impl, group_size, workers, fIn, fOut, pc, cause, SYMBOLS, detail_map, cache, file, i, task,
          results, published, served, steps, outOfOrder, merged, covered, npublish, passDone,
          loaded>>

confVars == <<impl, group_size, workers, fIn, fOut>>
progVars == <<confVars, served>>
histVars == <<steps, outOfOrder, merged, covered, npublish, passDone, loaded>>

Impls == {"api_utils", "web", "test"}
Async == impl \in {"api_utils", "web"}

NoTask == [st |-> "none", res |-> Pending]
NoTasks == [s \in Symbols |-> NoTask]
NoMerges == [s \in Symbols |-> 0]
NoFile == [st |-> "absent", data |-> <<>>]
NotServed == [st |-> "none", rows |-> <<>>]
Absent == Sig("Absent", -1)
Superseded == Sig("Superseded", -1)
NotLoaded == [s \in Symbols |-> Absent]

\* ---------------------------------------------------------------- inputs
\* The contract list the provider may answer with: distinct symbols in any
\* order, each quoted in USDT or in another currency, each with its margin
\* rates.
Quotes == {"USDT", "USD"}
BootDetails == {Detail(4, 5)}
Items == [symbol : Symbols, quoteCoin : Quotes, detail : BootDetails]
ItemLists ==
    {l \in UNION {[1..n -> Items] : n \in 0..NumSymbols} :
        IsInjective([n \in DOMAIN l |-> l[n].symbol])}

\* The k-line answers the scheduler is run against: a timeout, and enough
\* bars with a model that fits and with one that does not.
SchedResponses ==
    {Resp("timeout", "rows", 0, TRUE, "ok", 0, 500, FALSE, FALSE),
     Resp("ok", "rows", MinBars, TRUE, "ok", 900, 700, FALSE, TRUE),
     Resp("ok", "rows", MinBars, TRUE, "raises", 0, 500, FALSE, FALSE)}

\* ------------------------------------------------------------- bootstrap
\* src/api_utils.py:71-75, src/web.py:155, src/test.py:45
LoadUniverse(items) ==
    LET usdt == SelectSeq(items, LAMBDA it : it.quoteCoin = "USDT")
    IN  [n \in DOMAIN usdt |-> usdt[n].symbol]

LoadDetails(items) ==
    [s \in {it.symbol : it \in {x \in Range(items) : x.quoteCoin = "USDT"}} |->
        (CHOOSE it \in Range(items) : it.symbol = s).detail]

DetailOf(s) == IF s \in DOMAIN detail_map THEN detail_map[s] ELSE Detail(0, 0)

NotCalled == Sig("NotCalled", -1)
NoCall == [resp |-> Resp("ok", "rows", 0, TRUE, "ok", 0, 0, FALSE, FALSE),
           detail |-> Detail(0, 0)]

\* nothing loaded, nothing running
Idle ==
    /\ pc = "boot"
    /\ cause = "none"
    /\ SYMBOLS = <<>>
    /\ detail_map = <<>>
    /\ cache = <<>>
    /\ file = NoFile
    /\ i = 0
    /\ task = NoTasks
    /\ results = <<>>
    /\ published = <<>>
    /\ served = NotServed
    /\ steps = <<>>
    /\ outOfOrder = FALSE
    /\ merged = NoMerges
    /\ covered = <<>>
    /\ npublish = 0
    /\ passDone = FALSE
    /\ loaded = NotLoaded

\* A fresh installation: no cache.json, the process about to start.
Init ==
    /\ impl \in Impls
    /\ group_size \in 1..MaxGroupSize
    /\ workers \in 1..MaxWorkers
    /\ impl = "test" => group_size = 1
    /\ impl /= "test" => workers = 1
    /\ fIn = NoCall
    /\ fOut = NotCalled
    /\ Idle

\* What the process holds in memory when it is started.
Fresh ==
    /\ SYMBOLS' = <<>>
    /\ detail_map' = <<>>
    /\ cache' = <<>>
    /\ i' = 0
    /\ task' = NoTasks
    /\ results' = <<>>
    /\ published' = <<>>
    /\ served' = NotServed
    /\ steps' = <<>>
    /\ outOfOrder' = FALSE
    /\ merged' = NoMerges
    /\ covered' = <<>>
    /\ npublish' = 0
    /\ passDone' = FALSE
    /\ loaded' = NotLoaded

\* The cache the main block loads: src/api_utils.py:166-167, src/web.py:150-152.
\* test.py reads no file.
LoadedCache == IF impl \in {"api_utils", "web"} /\ file.st = "ok" THEN file.data ELSE <<>>

\* The process starts: the universe is loaded from contract/detail, the cache
\* from cache.json, and the scheduler thread is started.
\*   api_utils.py:65-78 (a failed request gives SYMBOLS = []), 165-168
\*   web.py:148-158 and test.py:174-176 (a failed request is not caught)
Bootstrap ==
    /\ pc = "boot"
    /\ \E ok \in BOOLEAN, items \in ItemLists :
        LET universe == IF ok THEN LoadUniverse(items) ELSE <<>>
            details == IF ok THEN LoadDetails(items) ELSE <<>>
            loadRaises == impl \in {"api_utils", "web"} /\ file.st = "torn"
        IN  CASE impl = "api_utils" ->
                   \* the universe is loaded at import, then the main block runs
                   /\ SYMBOLS' = universe
                   /\ detail_map' = details
                   /\ cache' = LoadedCache
                   /\ pc' = (IF loadRaises THEN "dead" ELSE "seed")
                   /\ cause' = (IF loadRaises THEN "load" ELSE "none")
              [] impl = "web" ->
                   \* the main block loads the cache, then the universe
                   /\ SYMBOLS' = (IF loadRaises THEN <<>> ELSE universe)
                   /\ detail_map' = <<>>
                   /\ cache' = LoadedCache
                   /\ pc' = (IF loadRaises \/ ~ok THEN "dead" ELSE "loop")
                   /\ cause' = (IF loadRaises THEN "load"
                                ELSE IF ~ok THEN "bootstrap" ELSE "none")
              [] OTHER ->
                   /\ SYMBOLS' = universe
                   /\ detail_map' = <<>>
                   /\ cache' = <<>>
                   /\ pc' = (IF ~ok THEN "dead" ELSE "loop")
                   /\ cause' = (IF ~ok THEN "bootstrap" ELSE "none")
    /\ loaded' = (IF pc' = "dead" THEN NotLoaded
                  ELSE [s \in Symbols |->
                          IF file.st = "ok" THEN DictGet(file.data, s, Absent)
                          ELSE Absent])
    /\ UNCHANGED <<progVars, file, i, task, results, published, steps, outOfOrder,
                   merged, covered, npublish, passDone>>

\* ------------------------------------------------------------- scheduler
\* a slice one symbol too long, which takes the head of the next batch as well
BatchOverlap == IF Async THEN Slice(SYMBOLS, i, group_size + 1) ELSE SYMBOLS

\* src/api_utils.py:146, src/web.py:118: SYMBOLS[i:i+group_size];
\* src/test.py:102: one future per symbol of the whole universe.
Batch == IF Async THEN Slice(SYMBOLS, i, group_size) ELSE SYMBOLS

\* a loop that runs its body once before it looks at the length of the universe
OffsetsAtLeastOnce ==
    IF SYMBOLS = <<>> THEN <<0>> ELSE PyRange(0, Len(SYMBOLS), group_size)

\* src/api_utils.py:145, src/web.py:117: range(0, len(SYMBOLS), group_size)
Offsets == PyRange(0, Len(SYMBOLS), group_size)

\* the offset the for loop takes after i, or -1 when i was the last
NextOffset ==
    IF \E n \in DOMAIN Offsets : Offsets[n] = i /\ n < Len(Offsets)
    THEN Offsets[(CHOOSE n \in DOMAIN Offsets : Offsets[n] = i) + 1]
    ELSE -1

\* src/api_utils.py:142-143: for sym in SYMBOLS: cache.setdefault(sym, pending)
RECURSIVE SeedAll(_, _)
SeedAll(d, syms) ==
    IF syms = <<>> THEN d
    ELSE SeedAll(DictSetDefault(d, Head(syms), Pending), Tail(syms))

Seed ==
    /\ pc = "seed"
    /\ cache' = SeedAll(cache, SYMBOLS)
    /\ pc' = "loop"
    /\ UNCHANGED <<progVars, cause, SYMBOLS, detail_map, file, i, task, results,
                   published, histVars>>

\* while True: / for i in range(0, len(SYMBOLS), group_size):
\* With no symbol the for loop of api_utils.py and web.py has no iteration and
\* the while loop comes round at once; test.py always enters its with block.
PassStart ==
    /\ pc = "loop"
    /\ i' = 0
    /\ merged' = NoMerges
    /\ covered' = <<>>
    /\ npublish' = 0
    /\ IF Async /\ Offsets = <<>>
       THEN pc' = "loop" /\ passDone' = TRUE
       ELSE pc' = "launch" /\ passDone' = FALSE
    /\ UNCHANGED <<progVars, cause, SYMBOLS, detail_map, cache, file, task,
                   results, published, steps, outOfOrder, loaded>>

\* The tasks of the batch are created: asyncio.gather(*[fetch_kline(...)]) starts
\* them all, executor.submit queues them for the workers.
Launch ==
    /\ pc = "launch"
    /\ task' = [s \in Symbols |->
                  IF s \in Range(Batch)
                  THEN [st |-> IF Async THEN "running" ELSE "queued", res |-> Pending]
                  ELSE task[s]]
    /\ pc' = (IF Async THEN "gather" ELSE "pool")
    /\ steps' = <<<<"launch", 0>>>>
    /\ outOfOrder' = FALSE
    /\ covered' = Append(covered, Batch)
    /\ UNCHANGED <<progVars, cause, SYMBOLS, detail_map, cache, file, i, results,
                   published, merged, npublish, passDone, loaded>>

\* The scheduler has ended: there is no current batch and no current pass.
NoHistory ==
    /\ steps' = <<>>
    /\ outOfOrder' = FALSE
    /\ merged' = NoMerges
    /\ covered' = <<>>
    /\ npublish' = 0
    /\ passDone' = FALSE
    /\ loaded' = NotLoaded

Running == {s \in Symbols : task[s].st = "running"}
Queued == {s \in Symbols : task[s].st = "queued"}

\* src/test.py:101: a worker thread takes the oldest queued call
Start(s) ==
    /\ pc = "pool"
    /\ task[s].st = "queued"
    /\ Cardinality(Running) < workers
    /\ \A n, m \in DOMAIN SYMBOLS :
          (SYMBOLS[m] = s /\ n < m) => SYMBOLS[n] \notin Queued
    /\ task' = [task EXCEPT ![s].st = "running"]
    /\ UNCHANGED <<progVars, pc, cause, SYMBOLS, detail_map, cache, file, i,
                   results, published, histVars>>

\* One task ends, in any order among the running ones, with the signal (or the
\* exception) the provider's answer gives.
Complete(s) ==
    /\ pc \in {"gather", "pool"}
    /\ task[s].st = "running"
    /\ \E r \in SchedResponses :
          task' = [task EXCEPT ![s] = [st |-> "done", res |-> Analyze(impl, r, DetailOf(s))]]
    /\ outOfOrder' = (outOfOrder \/ \E n, m \in DOMAIN Batch :
                          n < m /\ Batch[m] = s /\ task[Batch[n]].st \in {"queued", "running"})
    /\ UNCHANGED <<progVars, pc, cause, SYMBOLS, detail_map, cache, file, i,
                   results, published, steps, merged, covered, npublish, passDone,
                   loaded>>

\* the emit placed ahead of the write, which is then never reached
AfterMergePublish == "publish"

\* What follows the merge loop, the write and the emit:
\* src/api_utils.py:150-153, src/web.py:125-131
AfterMerge == "persist"
AfterPersist == "publish"
AfterPublish == "sleep"

\* a wait that returns as soon as one task of the batch is done
GatherReadyAny == \E s \in Range(Batch) : task[s].st = "done"

\* await asyncio.gather(...) returns when every task of the batch is done
GatherReady == \A s \in Range(Batch) : task[s].st = "done"

\* an exception of a task is raised to the awaiting coroutine as soon as it occurs
GatherRaises == \E s \in Range(Batch) : task[s].st = "done" /\ task[s].res = Raised

\* src/api_utils.py:147, src/web.py:120: the results, in the order of the batch
Gather ==
    /\ pc = "gather"
    /\ ~GatherRaises
    /\ GatherReady
    /\ LET done == SelectSeq(Batch, LAMBDA s : task[s].st = "done")
       IN  results' = [n \in DOMAIN done |-> <<done[n], task[done[n]].res>>]
    /\ task' = [s \in Symbols |-> IF task[s].st = "done" THEN NoTask ELSE task[s]]
    /\ pc' = (IF Batch = <<>> THEN AfterMerge ELSE "merge")
    /\ steps' = Append(steps, <<"gathered", 0>>)
    /\ UNCHANGED <<progVars, cause, SYMBOLS, detail_map, cache, file, i, published,
                   outOfOrder, merged, covered, npublish, passDone, loaded>>

\* The exception leaves rotating_analysis and asyncio.run, which cancels the
\* tasks still running; the thread ends and the server goes on serving.
GatherRaise ==
    /\ pc = "gather"
    /\ GatherRaises
    /\ pc' = "dead"
    /\ cause' = "fetch"
    /\ task' = NoTasks
    /\ NoHistory
    /\ UNCHANGED <<progVars, SYMBOLS, detail_map, cache, file, i, results,
                   published>>

\* src/api_utils.py:148-149, src/web.py:123-124: for s, r in results: cache[s] = r
MergeStep ==
    /\ pc = "merge"
    /\ results /= <<>>
    /\ cache' = DictSet(cache, Head(results)[1], Head(results)[2])
    /\ merged' = [merged EXCEPT ![Head(results)[1]] = @ + 1]
    /\ loaded' = [loaded EXCEPT ![Head(results)[1]] = Superseded]
    /\ results' = Tail(results)
    /\ pc' = (IF Tail(results) = <<>> THEN AfterMerge ELSE "merge")
    /\ steps' = Append(steps, <<"merge", Head(results)[1]>>)
    /\ UNCHANGED <<progVars, cause, SYMBOLS, detail_map, file, i, task, published,
                   outOfOrder, covered, npublish, passDone>>

\* src/test.py:103-105: for fut in as_completed(futures): results_cache[sym] = ...
MergeCompleted(s) ==
    /\ pc = "pool"
    /\ task[s].st = "done"
    /\ cache' = DictSet(cache, s, task[s].res)
    /\ merged' = [merged EXCEPT ![s] = @ + 1]
    /\ loaded' = [loaded EXCEPT ![s] = Superseded]
    /\ task' = [task EXCEPT ![s].st = "merged"]
    /\ steps' = Append(steps, <<"merge", s>>)
    /\ UNCHANGED <<progVars, pc, cause, SYMBOLS, detail_map, file, i, results,
                   published, outOfOrder, covered, npublish, passDone>>

\* src/test.py:101-106: the with block ends when every future has been handled
ExitPool ==
    /\ pc = "pool"
    /\ \A s \in Range(SYMBOLS) : task[s].st = "merged"
    /\ task' = NoTasks
    /\ pc' = "sleep"
    /\ UNCHANGED <<progVars, cause, SYMBOLS, detail_map, cache, file, i, results,
                   published, histVars>>

\* src/api_utils.py:150 CACHE_FILE.write_text(json.dumps(cache)), src/web.py:125
\* open(CACHE_FILE, 'w'): the file is opened and truncated, or the open raises
\* and the exception leaves rotating_analysis.
PersistOpen ==
    /\ pc = "persist"
    /\ \E ok \in BOOLEAN :
          IF ok
          THEN /\ file' = [st |-> "torn", data |-> <<>>]
               /\ pc' = "writing"
               /\ cause' = cause
               /\ UNCHANGED histVars
          ELSE /\ file' = file
               /\ pc' = "dead"
               /\ cause' = "persist"
               /\ NoHistory
    /\ UNCHANGED <<progVars, SYMBOLS, detail_map, cache, i, task, results,
                   published>>

\* src/api_utils.py:150, src/web.py:126: the whole cache is written and the file
\* closed, or the write raises and leaves what was written so far.
PersistWrite ==
    /\ pc = "writing"
    /\ \E ok \in BOOLEAN :
          IF ok
          THEN /\ file' = [st |-> "ok", data |-> cache]
               /\ pc' = AfterPersist
               /\ cause' = cause
               /\ steps' = Append(steps, <<"persist", 0>>)
               /\ UNCHANGED <<outOfOrder, merged, covered, npublish, passDone, loaded>>
          ELSE /\ file' = file
               /\ pc' = "dead"
               /\ cause' = "persist"
               /\ NoHistory
    /\ UNCHANGED <<progVars, SYMBOLS, detail_map, cache, i, task, results,
                   published>>

\* the payload built from the cache's own items, list(cache.items())
OrderedByCache == [n \in DOMAIN cache |-> <<cache[n].k, cache[n].v>>]

\* src/api_utils.py:151 [(s, cache[s]) for s in SYMBOLS]
\* src/web.py:129       [(sym, cache.get(sym, pending)) for sym in SYMBOLS]
Ordered ==
    [n \in DOMAIN SYMBOLS |-> <<SYMBOLS[n], DictGet(cache, SYMBOLS[n], Pending)>>]

\* cache[s] of api_utils.py raises KeyError for a symbol the cache lacks
OrderedRaises == impl = "api_utils" /\ \E s \in Range(SYMBOLS) : ~DictHas(cache, s)

\* src/api_utils.py:151-152, src/web.py:129-130: socketio.emit('update', ...)
Publish ==
    /\ pc = "publish"
    /\ IF OrderedRaises
       THEN /\ pc' = "dead" /\ cause' = "publish"
            /\ published' = published
            /\ NoHistory
       ELSE /\ published' = Ordered
            /\ npublish' = npublish + 1
            /\ steps' = Append(steps, <<"publish", 0>>)
            /\ pc' = AfterPublish
            /\ cause' = cause
            /\ UNCHANGED <<outOfOrder, merged, covered, passDone, loaded>>
    /\ UNCHANGED <<progVars, SYMBOLS, detail_map, cache, file, i, task, results>>

\* src/api_utils.py:153, src/web.py:131 await asyncio.sleep(interval), then the
\* next offset of the for loop or the end of the pass; src/test.py:106
\* time.sleep(cycle_delay), then the next round of the while loop.
Sleep ==
    /\ pc = "sleep"
    /\ steps' = Append(steps, <<"sleep", 0>>)
    /\ IF Async /\ NextOffset >= 0
       THEN i' = NextOffset /\ pc' = "launch" /\ passDone' = FALSE
       ELSE i' = i /\ pc' = "loop" /\ passDone' = TRUE
    /\ UNCHANGED <<progVars, cause, SYMBOLS, detail_map, cache, file, task,
                   results, published, outOfOrder, merged, covered, npublish, loaded>>

\* src/api_utils.py:162, src/web.py:144:
\*   [(s, cache.get(s, pending)) for s in SYMBOLS]
on_connect ==
    [n \in DOMAIN SYMBOLS |-> <<SYMBOLS[n], DictGet(cache, SYMBOLS[n], Pending)>>]

\* src/test.py:171: one row per item of results_cache, in the dict's order
api_results == [n \in DOMAIN cache |-> <<cache[n].k, cache[n].v>>]

\* src/test.py:171 iterates results_cache.items() in the request's thread while
\* the scheduler thread may store the result of a symbol the dict does not hold
\* yet: the iteration then raises RuntimeError (dictionary changed size).
ReadRaces ==
    /\ impl = "test"
    /\ pc = "pool"
    /\ cache /= <<>>
    /\ \E s \in Symbols : task[s].st = "done" /\ ~DictHas(cache, s)

\* The server is up from the end of the main block on, whether the scheduler
\* thread still runs or not.
Serving == pc /= "boot" /\ ~(pc = "dead" /\ cause \in {"load", "bootstrap"})

\* A client connects (api_utils.py, web.py: on_connect) or polls /api/results
\* (test.py: api_results), at any point of the scheduler's work.
OnConnect ==
    /\ Serving
    /\ \/ served' = [st |-> "ok", rows |-> IF Async THEN on_connect ELSE api_results]
       \/ ReadRaces /\ served' = [st |-> "error", rows |-> <<>>]
    /\ UNCHANGED <<confVars, pc, cause, SYMBOLS, detail_map, cache, file, i, task,
                   results, published, histVars>>

\* The process is stopped (at any point, a write in progress included) and
\* started again: memory is lost, cache.json stays as it is.
Restart ==
    /\ pc /= "boot"
    /\ pc' = "boot"
    /\ cause' = "none"
    /\ Fresh
    /\ UNCHANGED <<confVars, file>>

Next ==
    \/ Bootstrap
    \/ Seed
    \/ PassStart
    \/ Launch
    \/ \E s \in Symbols : Start(s)
    \/ \E s \in Symbols : Complete(s)
    \/ Gather
    \/ GatherRaise
    \/ MergeStep
    \/ \E s \in Symbols : MergeCompleted(s)
    \/ ExitPool
    \/ PersistOpen
    \/ PersistWrite
    \/ Publish
    \/ Sleep
    \/ Restart

Spec == Init /\ [][Next]_vars

\* The scheduler together with the serving layer's snapshot reads.  A read
\* changes nothing but served, so Spec is SpecServe with the reads left out.
NextServe == Next \/ OnConnect

SpecServe == Init /\ [][NextServe]_vars

\* ------------------------------------------------ the per-symbol task alone
(***************************************************************************)
(* SpecFetch calls the per-symbol task of each program once, on every      *)
(* answer of the provider drawn from the sets below.                       *)
(***************************************************************************)
Nets == {"ok", "timeout", "error"}
Bodies == {"invalid", "list", "nokey", "null", "rows"}
Fits == {"ok", "raises"}
RowCounts == {0, 1, MinBars - 1, MinBars, MinBars + 1}
Probs == {0, ShortPermille - 1, ShortPermille, ShortPermille + 1, 500,
          LongPermille - 1, LongPermille, LongPermille + 1, 1000}
RsiValues == {0, 300, 500, 700, 1000}
FetchDetails == {Detail(0, 0), Detail(4, 5)}

\* answers as fetch_kline reads them (the RSI/MACD fields are not read)
KlineResponses ==
    {Resp(n, b, k, w, f, p, 500, FALSE, FALSE) :
        n \in Nets, b \in Bodies, k \in RowCounts, w \in BOOLEAN, f \in Fits,
        p \in Probs}

\* answers as analyze_symbol reads them (the probability is not read)
IndicatorResponses ==
    {Resp(n, b, k, w, f, 0, r, nan, m) :
        n \in Nets, b \in Bodies, k \in RowCounts, w \in BOOLEAN, f \in Fits,
        r \in RsiValues, nan \in BOOLEAN, m \in BOOLEAN}

InitFetch ==
    /\ impl \in Impls
    /\ group_size = 1
    /\ workers = 1
    /\ fIn \in [resp : IF impl = "test" THEN IndicatorResponses ELSE KlineResponses,
                detail : IF impl = "api_utils" THEN FetchDetails ELSE {Detail(0, 0)}]
    /\ fOut = NotCalled
    /\ Idle

CallTask ==
    /\ fOut = NotCalled
    /\ fOut' = Analyze(impl, fIn.resp, fIn.detail)
    /\ UNCHANGED <<impl, group_size, workers, fIn, pc, cause, SYMBOLS, detail_map,
                   cache, file, i, task, results, published, served, histVars>>

NextFetch == CallTask

SpecFetch == InitFetch /\ [][NextFetch]_vars

\* ------------------------------------------------------------- properties
Keys(payload) == [n \in DOMAIN payload |-> payload[n][1]]

Kinds == [n \in DOMAIN steps |-> steps[n][1]]

Has(kind) == \E n \in DOMAIN steps : steps[n][1] = kind

Rank(kind) ==
    CASE kind = "launch" -> 1
      [] kind = "gathered" -> 2
      [] kind = "merge" -> 3
      [] kind = "persist" -> 4
      [] kind = "publish" -> 5
      [] OTHER -> 6

\* the logged steps never go back, and only the merge step repeats
InOrder ==
    \A n, m \in DOMAIN steps :
        n < m => /\ Rank(Kinds[n]) <= Rank(Kinds[m])
                 /\ Rank(Kinds[n]) = Rank(Kinds[m]) => Kinds[n] = "merge"

RECURSIVE Flatten(_)
Flatten(seqs) == IF seqs = <<>> THEN <<>> ELSE Head(seqs) \o Flatten(Tail(seqs))

CeilDiv(n, b) == (n + b - 1) \div b

Unfinished == {s \in Symbols : task[s].st \in {"queued", "running"}}

\* the process ended in its main block, before a scheduler existed
DiedStarting == pc = "dead" /\ cause \in {"load", "bootstrap"}

\* C1: every snapshot the scheduler publishes lists exactly the symbols of the
\* universe, one entry per symbol, in universe order, whatever the order in
\* which the tasks of the batch ended.
C1_PublishedInUniverseOrder ==
    published /= <<>> => Keys(published) = SYMBOLS

\* C1: a snapshot was published for a batch whose second task ended first.
C1_Witness ==
    /\ Async
    /\ outOfOrder
    /\ Has("publish")
    /\ Len(published) = 2

\* C2: within a pass every universe symbol is merged into the cache exactly
\* once: never twice, never a symbol outside the universe, and none is missing
\* when the pass is over.
C2_MergedOncePerPass ==
    /\ \A s \in Symbols : merged[s] <= 1 /\ (merged[s] = 1 => s \in Range(SYMBOLS))
    /\ passDone => \A s \in Range(SYMBOLS) : merged[s] = 1

\* C2: a pass of two batches is over.
C2_Witness ==
    /\ passDone
    /\ Len(covered) = 2
    /\ \A s \in Range(SYMBOLS) : merged[s] = 1

\* C3: a pass over N symbols with batch size B has exactly ceil(N/B) batches of
\* at most B symbols, consecutive slices that cover the universe without
\* overlap, each merged and published once (ceil(N/B) emits per pass); 45
\* symbols with the default B = 30 give the batches of 30 and 15.
C3_BatchesPartitionUniverse ==
    /\ Async =>
        /\ \A n \in DOMAIN covered : Len(covered[n]) \in 1..group_size
        /\ Len(Flatten(covered)) <= Len(SYMBOLS)
        /\ Flatten(covered) = SubSeq(SYMBOLS, 1, Len(Flatten(covered)))
        /\ npublish \in {Len(covered) - 1, Len(covered)}
        /\ Has("publish") =>
              /\ npublish = Len(covered)
              /\ \A s \in Range(Flatten(covered)) : merged[s] = 1
        /\ passDone =>
              /\ Flatten(covered) = SYMBOLS
              /\ Len(covered) = CeilDiv(Len(SYMBOLS), group_size)
              /\ npublish = CeilDiv(Len(SYMBOLS), group_size)
    /\ LET universe == [n \in 1..45 |-> n]
           offsets == PyRange(0, Len(universe), DefaultGroupSize)
       IN  /\ Len(offsets) = 2
           /\ Len(Slice(universe, offsets[1], DefaultGroupSize)) = 30
           /\ Len(Slice(universe, offsets[2], DefaultGroupSize)) = 15
           /\ Slice(universe, offsets[1], DefaultGroupSize)
                 \o Slice(universe, offsets[2], DefaultGroupSize) = universe

\* C3: a pass of two batches was merged and published twice.
C3_Witness ==
    /\ Async
    /\ passDone
    /\ Len(covered) = 2
    /\ npublish = 2

\* C4: every error of a per-symbol task becomes a signal of that symbol: no
\* task ends with an exception, and no such error ends the scheduler.
C4_TaskErrorsBecomeSignals ==
    /\ \A s \in Symbols : task[s].res /= Raised
    /\ ~(pc = "dead" /\ cause = "fetch")

\* C5: the fetch maps a transport or timeout failure to RequestFailed, an
\* empty payload to NoResponse, and one to MinBars - 1 bars to
\* InsufficientData, none of them under another tag.
C5_DistinctFailureOutcomes ==
    (fOut /= NotCalled /\ impl \in {"api_utils", "web"}) =>
        LET r == fIn.resp
        IN  /\ r.net /= "ok" => fOut = RequestFailed
            /\ (r.net = "ok" /\ r.body = "rows" /\ r.rows = 0) => fOut = NoResponse
            /\ (r.net = "ok" /\ r.body = "rows" /\ r.wellformed
                /\ r.rows \in 1..(MinBars - 1)) => fOut = InsufficientData

\* C6: batches run one after another: a task exists only while its batch is
\* awaited and belongs to that batch, and a batch is launched only when the
\* results of every earlier batch of the pass have been merged.
C6_BatchesDoNotOverlap ==
    /\ \A s \in Symbols :
          task[s].st /= "none" => pc \in {"gather", "pool"} /\ s \in Range(Batch)
    /\ pc = "launch" =>
          /\ results = <<>>
          /\ \A s \in Range(Flatten(covered)) : merged[s] = 1

\* C6: the second batch of a pass is in flight, the first one merged.
C6_Witness ==
    /\ i > 0
    /\ Running /= {}
    /\ \A s \in Range(SYMBOLS) \ Range(Batch) : merged[s] = 1 /\ task[s].st = "none"

\* C7 as stated, for every program: the steps of a batch are taken in the
\* order tasks complete, merge, persist, publish, sleep; nothing is merged
\* while a task of the batch is unfinished, and the sleep comes after the
\* publish.
StepOrder ==
    /\ InOrder
    /\ Has("merge") => Unfinished = {}
    /\ Has("persist") => Has("merge") /\ results = <<>>
    /\ Has("publish") => Has("persist")
    /\ Has("sleep") => Has("publish")
    /\ Unfinished /= {} => Kinds = <<"launch">>

C8_OneEntryPerSymbol ==
    (pc \notin {"boot", "seed"} /\ ~DiedStarting) =>
        \A s \in Range(SYMBOLS) : Cardinality({n \in DOMAIN cache : cache[n].k = s}) = 1

\* C9: the cache, also one loaded from a file of an earlier run, and the
\* snapshot written after a batch hold no key outside the current universe.
C9_CacheWithinUniverse ==
    (pc /= "boot" /\ ~DiedStarting) =>
        /\ DictKeys(cache) \subseteq Range(SYMBOLS)
        /\ (Has("persist") /\ file.st = "ok") => DictKeys(file.data) \subseteq Range(SYMBOLS)

\* C10: a failed write of cache.json does not end the scheduler.
C10_WriteFailureDoesNotAbort ==
    ~(pc = "dead" /\ cause = "persist")

\* C11: when a fetch of a batch ended by its timeout (its task returned
\* RequestFailed), no sibling task of the batch ends with an exception: the
\* gather returns, so that the batch is merged and published with the
\* siblings' own results.
C11_HungSymbolIsolated ==
    pc = "gather" =>
        \A s, t \in Range(Batch) :
            (s /= t /\ task[s].st = "done" /\ task[s].res = RequestFailed)
                => task[t].res /= Raised

\* C12: the scheduler has no terminal state: once rotating_analysis or
\* batch_update runs it never ends, so that every pass is followed by another
\* pass over the whole universe.
C12_SchedulerNeverEnds ==
    pc = "dead" => DiedStarting

\* the answer lets the scorer run to its end
Scored(r) ==
    /\ r.net = "ok"
    /\ r.body = "rows"
    /\ r.wellformed
    /\ r.rows >= MinBars
    /\ r.fit = "ok"

\* the probability the thresholds are applied to, in millionths: risk-adjusted
\* in api_utils.py, the model's own in web.py
AdjustedMillionths ==
    IF impl = "api_utils"
    THEN fIn.resp.prob * (1000 - (fIn.detail.mmr + fIn.detail.imr))
    ELSE fIn.resp.prob * 1000

\* C13: the threshold scorer gives Long carrying adjusted when adjusted > 0.85,
\* Short carrying 1 - adjusted when adjusted < 0.15, and NoRecommendation
\* carrying adjusted for every other value, exactly 0.85 and exactly 0.15
\* included.
C13_ThresholdMapping ==
    (fOut /= NotCalled /\ impl \in {"api_utils", "web"} /\ Scored(fIn.resp)) =>
        LET adj == AdjustedMillionths
        IN  /\ adj > LongPermille * 1000 => fOut = Sig("Long", RoundDiv(adj, 1000))
            /\ adj < ShortPermille * 1000 => fOut = Sig("Short", RoundDiv(1000000 - adj, 1000))
            /\ (adj >= ShortPermille * 1000 /\ adj <= LongPermille * 1000) => fOut = Sig("NoRec", RoundDiv(adj, 1000))
            /\ adj = LongPermille * 1000 => fOut = Sig("NoRec", LongPermille)
            /\ adj = ShortPermille * 1000 => fOut = Sig("NoRec", ShortPermille)

\* C13: the scorer was called with a probability of exactly 0.85 and no risk.
C13_Witness ==
    /\ fOut = Sig("NoRec", LongPermille)
    /\ Scored(fIn.resp)
    /\ AdjustedMillionths = LongPermille * 1000

\* C14: a Signal carries no number (pct = -1) or a confidence within [0, 100],
\* that is 0..1000 tenths of a percent, whatever the probability, the margin
\* rates and the RSI were.
C14_ConfidenceWithinRange ==
    fOut /= NotCalled => (fOut.pct = -1 \/ fOut.pct \in 0..1000)

\* C15: a failed contract-detail request at bootstrap gives the empty universe
\* and does not end the process: the scheduler and the server are started.
C15_BootstrapFailureStillStarts ==
    ~(pc = "dead" /\ cause = "bootstrap")

\* C16: a snapshot read by the serving layer ends without error and returns
\* every universe symbol exactly once, in universe order.
C16_SnapshotReadComplete ==
    served.st /= "none" =>
        /\ served.st = "ok"
        /\ Keys(served.rows) = SYMBOLS

\* C17: a crash in the middle of the write of cache.json leaves a complete
\* snapshot on disk, the previous or the new one, so the load of the file at
\* the next start never fails.
C17_LoadAfterCrashSucceeds ==
    ~(pc = "dead" /\ cause = "load")

\* the entry a symbol starts with: the signal loaded for it, else the placeholder
StartsWith(s) == IF loaded[s] = Absent THEN Pending ELSE loaded[s]

\* C18: while no result has been merged for a universe symbol since the start,
\* its cache entry, and the value published for it, is the signal loaded from
\* cache.json, or the pending placeholder if the file had none (an entry of
\* its own in api_utils.py, the default of the read in web.py).
C18_LoadedSignalKept ==
    (Async /\ pc \notin {"boot", "seed", "dead"}) =>
        \A s \in Range(SYMBOLS) :
            loaded[s] /= Superseded =>
                /\ DictGet(cache, s, Pending) = StartsWith(s)
                /\ impl = "api_utils" => DictHas(cache, s)
                /\ \A n \in DOMAIN published :
                      published[n][1] = s => published[n][2] = StartsWith(s)

\* C18: a batch was published while another universe symbol, not yet merged
\* since the start, still shows the result loaded for it from cache.json.
C18_Witness ==
    /\ Async
    /\ Has("publish")
    /\ \E n \in DOMAIN published :
          /\ loaded[published[n][1]] \notin {Absent, Superseded, Pending}
          /\ published[n][2] = loaded[published[n][1]]

\* the entry of a symbol, Absent if the cache has none
Entry(d, s) == DictGet(d, s, Absent)

\* how often the merge loop of the current batch has stored a result for s
MergesInBatch(s) == Cardinality({n \in DOMAIN steps : steps[n] = <<"merge", s>>})

\* after the merge loop of a batch every symbol of the batch, and no other, has
\* had its result stored once
BatchMerged ==
    (Async /\ pc \in {"persist", "writing", "publish", "sleep"}) =>
        \A s \in Symbols : MergesInBatch(s) = (IF s \in Range(Batch) THEN 1 ELSE 0)

\* one step of the running scheduler: a store of the merge loop sets the entry
\* of its symbol, which is of the batch, to the task's result; whatever entry
\* changes is that one; persist, publish and sleep leave the cache as it is
MergeFrame ==
    (pc \notin {"boot", "seed"} /\ pc' /= "boot") =>
        /\ \A s \in Symbols :
              Entry(cache', s) /= Entry(cache, s) =>
                  /\ pc \in {"merge", "pool"}
                  /\ s \in Range(Batch)
                  /\ steps' = Append(steps, <<"merge", s>>)
        /\ \A s \in Symbols :
              MergesInBatch(s)' = MergesInBatch(s) + 1 =>
                  /\ s \in Range(Batch)
                  /\ Entry(cache', s) = (IF Async THEN Head(results)[2] ELSE task[s].res)
        /\ pc \in {"persist", "writing", "publish", "sleep"} => cache' = cache

\* C19: merging the results of a batch replaces the cache entries of exactly
\* the symbols of that batch and leaves every other entry unchanged; persist,
\* publish and sleep change no entry.
C19_MergeFrameEffect == []BatchMerged /\ [][MergeFrame]_vars

\* C19: a batch has been merged into a cache that also holds the entry of a
\* symbol outside the batch.
C19_Witness ==
    /\ Async
    /\ pc = "persist"
    /\ Has("merge")
    /\ \E s \in DictKeys(cache) : s \notin Range(Batch) /\ Entry(cache, s) /= Pending

\* rotating_analysis runs on the empty universe
EmptyRun == Async /\ SYMBOLS = <<>> /\ pc \notin {"boot", "seed", "dead"}

\* on the empty universe the scheduler stands at the head of its while loop,
\* with no task, no step of a batch taken and nothing published
NothingDone ==
    EmptyRun =>
        /\ pc = "loop"
        /\ task = NoTasks
        /\ results = <<>>
        /\ steps = <<>>
        /\ covered = <<>>
        /\ merged = NoMerges
        /\ npublish = 0
        /\ published = <<>>

\* a round of the while loop on the empty universe comes back to its head and
\* changes neither the cache nor cache.json nor what was published
SpinsInPlace ==
    (EmptyRun /\ pc' /= "boot") =>
        /\ pc' = "loop"
        /\ cache' = cache
        /\ file' = file
        /\ published' = published

\* C20: with an empty universe a round of the scheduler's outer loop fetches,
\* merges, persists, publishes nothing and does not sleep: the scheduler never
\* leaves the head of the loop, which it re-enters at once.
C20_EmptyUniverseSpins == []NothingDone /\ [][SpinsInPlace]_vars

\* C20: rotating_analysis has gone round its while loop on an empty universe.
C20_Witness ==
    /\ EmptyRun
    /\ passDone
    /\ pc = "loop"

=============================================================================
